---- MODULE Spec2Model ----
(***************************************************************************)
(* Model of the authentication / authorization and caching core of the     *)
(* slodi backend: app/core/cache.py (membership cache over an aiocache     *)
(* backend) and app/core/auth.py (JWKS cache, token verification, rank     *)
(* checks).                                                                *)
(***************************************************************************)
EXTENDS Integers, Sequences, FiniteSets, TLC

VARIABLES
    backend,      \* settings.cache_backend: "memory" | "redis"
    mcache,       \* membership_cache._cache: the backend's key -> stored value map
    expect,       \* history: per (user, workspace), what the callers last did to the entry
    got,          \* history: the last WorkspaceMembershipCache.get call and its result
    twice,        \* history: the last mutation was a set() repeating the previous set()
    memberships,  \* the store: WorkspaceMembership rows, (user, workspace) -> role | None
    req,          \* the last access-check request and its outcome
    jwks,         \* JWKSCache._jwks
    fetched_at,   \* JWKSCache._fetched_at
    lock,         \* JWKSCache._lock: 0 when free, else the thread that holds it
    now,          \* wall clock, in ticks
    provider,     \* the key ids the identity provider publishes at the moment
    th,           \* per verification thread: its position in verify_auth0_token and locals
    epochFetches, \* history: fetches that refreshed the empty or expired cache since it last expired
    sharedRefresh, \* history: a thread that arrived during an expiry refresh got the cached set
    group_memberships, \* the store: GroupMembership rows, (user, group) -> role | None
    users,        \* the store: live User rows by auth0_id (NoUser when there is none)
    ucache,       \* user_cache._cache: auth0_id -> the cached UserOut and when it expires
    time,         \* time.time(), in ticks
    ireq,         \* per request slot: its position in get_current_user and its locals
    ires,         \* history: the get_current_user call that ended last, and what it did
    changed_at,   \* history: per auth0_id, when its row last changed (-1: never)
    pre_change,   \* history: per auth0_id, the row as it was before that change
    workspaces,   \* the store: per workspace, "live", "patched" or "deleted" (deleted_at set)
    programs,     \* the store: per program, its workspace, its author and its state
    hreq,         \* per request slot: its position in a route handler and its locals
    hres,         \* history: the route handler call that ended last
    windows,      \* RateLimiter._cache: per key, the stored _Window and when its ttl runs out
    rl_time,      \* time.time() as the rate limiter reads it, in half seconds
    calls,        \* history: per key, when check() was called and what it answered
    checking,     \* per request slot: a check() call between its cache get and its cache set
    granted,      \* history: per key, how many check() calls answered allowed
    table,        \* the store: per row id, whether the row exists and its deleted_at (0: None)
    stamp,        \* datetime.now() of the last repository call
    repo_call,    \* history: the last repository call, its result and the table before it
    creating,     \* create requests that passed their checks and have not inserted yet
    served        \* history: the last request for the content of a program and its outcome

cacheVars  == <<backend, mcache, expect, got, twice>>
accessVars == <<memberships, req>>
jwksVars   == <<jwks, fetched_at, lock, now, provider, th, epochFetches,
                sharedRefresh>>
groupVars  == <<group_memberships>>

\* The components that the membership cache, the workspace checks and the
\* signing-key cache never touch.
identityVars == <<users, ucache, time, ireq, ires, changed_at, pre_change>>

\* The route handlers and the rate limiter.
handlerVars == <<workspaces, programs, hreq, hres>>
rateVars    == <<windows, rl_time, calls, checking, granted>>
storeVars   == <<table, stamp, repo_call, creating>>
routeVars   == <<handlerVars, rateVars, storeVars, served>>

otherComponents == <<groupVars, identityVars, routeVars>>

vars       == <<cacheVars, accessVars, jwksVars, otherComponents>>

\* What an access-check request leaves alone besides the store and the cache.
otherThanAccess == <<backend, expect, got, twice, jwksVars, otherComponents>>

-----------------------------------------------------------------------------
(* Values shared by the cache and the access checks *)

\* Python's None.
None == "None"

\* class WorkspaceRole(str, Enum)
WorkspaceRole == {"owner", "admin", "editor", "viewer"}

\* class Permissions(str, Enum)
Permissions == {"admin", "member", "viewer"}

\* The two module-level object() sentinels of cache.py, and any object() that
\* is not one of them (an instance rebuilt by pickle.loads has a new identity).
CACHE_MISS == "<object CACHE_MISS>"
NON_MEMBER == "<object _NON_MEMBER>"
OtherObject == "<object>"

\* UUIDs, as str() prints them: strings of one fixed length.
UserIds == {<<"u", "1">>, <<"u", "2">>}
WorkspaceIds == {<<"w", "1">>, <<"w", "2">>}

Backends == {"memory", "redis"}

-----------------------------------------------------------------------------
(* The aiocache backend, as cache.py configures and documents it *)

\* SimpleMemoryCache keeps the object itself (NullSerializer); RedisCache is
\* built with PickleSerializer(): an Enum member is pickled by name, a bare
\* object() keeps no identity.
Dumps(b, value) ==
    IF b = "redis"
    THEN [ser |-> "pickle",
          val |-> IF value \in {CACHE_MISS, NON_MEMBER, OtherObject} THEN "object()" ELSE value]
    ELSE [ser |-> "null", val |-> value]

Loads(raw) ==
    IF raw.ser = "pickle"
    THEN (IF raw.val = "object()" THEN OtherObject ELSE raw.val)
    ELSE raw.val

\* key = namespace + key
BuildKey(namespace, key) == <<namespace>> \o key

MembershipNamespace == "membership"

\* f"{user_id}:{workspace_id}"
MembershipKey(user_id, workspace_id) == user_id \o <<":">> \o workspace_id

\* BaseCache.get(key, default): the default comes back when the key is absent
\* and also when the stored value is None.
BackendGet(store, namespace, key, default) ==
    LET ns_key == BuildKey(namespace, key)
        value == IF ns_key \in DOMAIN store THEN Loads(store[ns_key]) ELSE None
    IN IF value # None THEN value ELSE default

BackendSet(b, store, namespace, key, value) ==
    LET ns_key == BuildKey(namespace, key)
    IN [k \in DOMAIN store \cup {ns_key} |-> IF k = ns_key THEN Dumps(b, value) ELSE store[k]]

BackendDelete(store, namespace, key) ==
    [k \in DOMAIN store \ {BuildKey(namespace, key)} |-> store[k]]

\* clear(namespace): drops every key that starts with the namespace.
BackendClear(store, namespace) ==
    [k \in {x \in DOMAIN store : Head(x) # namespace} |-> store[k]]

-----------------------------------------------------------------------------
(* WorkspaceMembershipCache *)

MembershipCacheGet(store, user_id, workspace_id) ==
    LET value == BackendGet(store, MembershipNamespace,
                            MembershipKey(user_id, workspace_id), CACHE_MISS)
    IN IF value = NON_MEMBER THEN None ELSE value

StoredForm(role) == IF role = None THEN NON_MEMBER ELSE role

MembershipCacheSet(b, store, user_id, workspace_id, role) ==
    BackendSet(b, store, MembershipNamespace, MembershipKey(user_id, workspace_id),
               StoredForm(role))

\* Mutant: the key is built with its two halves swapped.
InvalidateSwappedKey(store, user_id, workspace_id) ==
    BackendDelete(store, MembershipNamespace, MembershipKey(workspace_id, user_id))

MembershipCacheInvalidate(store, user_id, workspace_id) ==
    BackendDelete(store, MembershipNamespace, MembershipKey(user_id, workspace_id))

\* Mutant: another namespace is flushed.
ClearUserNamespace(store) == BackendClear(store, "user")

MembershipCacheClearAll(store) == BackendClear(store, MembershipNamespace)

-----------------------------------------------------------------------------
(* Callers of the membership cache, with the history the properties read *)

Pairs == UserIds \X WorkspaceIds

NoGet == [user_id |-> <<>>, workspace_id |-> <<>>, result |-> "-"]

CacheInit ==
    /\ backend \in Backends
    /\ mcache = <<>>
    /\ expect = [p \in Pairs |-> "never"]
    /\ got = NoGet
    /\ twice = FALSE

CacheIdle ==
    /\ backend = "memory"
    /\ mcache = <<>>
    /\ expect = [p \in Pairs |-> "never"]
    /\ got = NoGet
    /\ twice = FALSE

\* await cache.set(user_id, workspace_id, role)
CacheSet(u, w, role) ==
    /\ mcache' = MembershipCacheSet(backend, mcache, u, w, role)
    /\ expect' = [expect EXCEPT ![<<u, w>>] = role]
    /\ twice' = (expect[<<u, w>>] = role)
    /\ got' = NoGet
    /\ UNCHANGED <<backend, accessVars, jwksVars, otherComponents>>

\* await cache.invalidate(user_id, workspace_id)
CacheInvalidate(u, w) ==
    /\ mcache' = MembershipCacheInvalidate(mcache, u, w)
    /\ expect' = [expect EXCEPT ![<<u, w>>] = "invalidated"]
    /\ twice' = FALSE
    /\ got' = NoGet
    /\ UNCHANGED <<backend, accessVars, jwksVars, otherComponents>>

\* await cache.clear_all()
CacheClearAll ==
    /\ mcache' = MembershipCacheClearAll(mcache)
    /\ expect' = [p \in Pairs |-> IF expect[p] = "never" THEN "never" ELSE "cleared"]
    /\ twice' = FALSE
    /\ got' = NoGet
    /\ UNCHANGED <<backend, accessVars, jwksVars, otherComponents>>

\* The backend drops an entry when its ttl has run out.
TtlExpire(store, ns_key) == [k \in DOMAIN store \ {ns_key} |-> store[k]]

CacheExpire(u, w) ==
    /\ BuildKey(MembershipNamespace, MembershipKey(u, w)) \in DOMAIN mcache
    /\ mcache' = TtlExpire(mcache, BuildKey(MembershipNamespace, MembershipKey(u, w)))
    /\ expect' = [expect EXCEPT ![<<u, w>>] = "expired"]
    /\ twice' = FALSE
    /\ got' = NoGet
    /\ UNCHANGED <<backend, accessVars, jwksVars, otherComponents>>

\* result = await cache.get(user_id, workspace_id)
CacheGet(u, w) ==
    /\ got' = [user_id |-> u, workspace_id |-> w,
               result |-> MembershipCacheGet(mcache, u, w)]
    /\ UNCHANGED <<backend, mcache, expect, twice, accessVars, jwksVars, otherComponents>>

NextCache ==
    \/ \E u \in UserIds, w \in WorkspaceIds, role \in WorkspaceRole \cup {None} :
          CacheSet(u, w, role)
    \/ \E u \in UserIds, w \in WorkspaceIds : CacheInvalidate(u, w)
    \/ CacheClearAll
    \/ \E u \in UserIds, w \in WorkspaceIds : CacheExpire(u, w)
    \/ \E u \in UserIds, w \in WorkspaceIds : CacheGet(u, w)

-----------------------------------------------------------------------------
(* Rank hierarchies and the access checks of auth.py *)

PERMISSION_RANK == [viewer |-> 0, member |-> 1, admin |-> 2]

WORKSPACE_ROLE_RANK == [viewer |-> 0, editor |-> 1, admin |-> 2, owner |-> 3]

\* HTTP statuses; Allowed stands for the check returning without raising.
Allowed == 200
Forbidden == 403
NotFound == 404
ServerError == 500

\* author_id is None
NullId == <<>>

\* The users who send requests; the other user ids occur as authors only and
\* have no membership row.
Callers == {<<"u", "1">>}

\* The workspaces that have membership rows; the other workspace has no member.
MemberWorkspaces == {<<"w", "1">>}

\* WorkspaceService.find_user_role(workspace_id, user_id)
FindUserRole(rows, workspace_id, user_id) == rows[<<user_id, workspace_id>>]

\* _get_workspace_role: the role, the cache it leaves, and what it touched.
GetWorkspaceRole(b, store, rows, workspace_id, user_id) ==
    LET cached == MembershipCacheGet(store, user_id, workspace_id)
    IN IF cached # CACHE_MISS
       THEN [role |-> cached, cache |-> store,
             cache_read |-> TRUE, store_read |-> FALSE, cache_written |-> FALSE]
       ELSE LET role == FindUserRole(rows, workspace_id, user_id)
            IN [role |-> role,
                cache |-> MembershipCacheSet(b, store, user_id, workspace_id, role),
                cache_read |-> TRUE, store_read |-> TRUE, cache_written |-> TRUE]

\* Mutant: equal rank is refused.
PermissionStatusStrict(permissions, minimum) ==
    IF PERMISSION_RANK[permissions] <= PERMISSION_RANK[minimum] THEN Forbidden ELSE Allowed

\* The guard of require_permission(minimum)._check
PermissionStatus(permissions, minimum) ==
    IF PERMISSION_RANK[permissions] < PERMISSION_RANK[minimum] THEN Forbidden ELSE Allowed

\* Mutant: the bypass is keyed on the workspace role name instead.
IsWorkspaceOwner(permissions) == permissions = "owner"

\* current_user.permissions == Permissions.admin
IsPlatformAdmin(permissions) == permissions = "admin"

\* _WORKSPACE_ROLE_RANK[role] raises KeyError for anything that is no WorkspaceRole.
NoMemberStatus(hide_from_non_members) ==
    IF hide_from_non_members THEN NotFound ELSE Forbidden

\* Mutant: hide_from_non_members also hides an insufficient role.
WorkspaceRoleStatusHideAll(role, minimum_role, hide_from_non_members) ==
    IF role = None
    THEN NoMemberStatus(hide_from_non_members)
    ELSE IF role \notin DOMAIN WORKSPACE_ROLE_RANK
    THEN ServerError
    ELSE IF WORKSPACE_ROLE_RANK[role] < WORKSPACE_ROLE_RANK[minimum_role]
    THEN NoMemberStatus(hide_from_non_members)
    ELSE Allowed

\* check_workspace_access, after the admin bypass, given the resolved role
WorkspaceRoleStatus(role, minimum_role, hide_from_non_members) ==
    IF role = None
    THEN NoMemberStatus(hide_from_non_members)
    ELSE IF role \notin DOMAIN WORKSPACE_ROLE_RANK
    THEN ServerError
    ELSE IF WORKSPACE_ROLE_RANK[role] < WORKSPACE_ROLE_RANK[minimum_role]
    THEN Forbidden
    ELSE Allowed

\* Mutant: the author is let through whatever their role.
ProgramEditStatusAnyAuthor(role, user_id, author_id, hide_from_non_members) ==
    IF role = None
    THEN NoMemberStatus(hide_from_non_members)
    ELSE IF role \notin DOMAIN WORKSPACE_ROLE_RANK
    THEN ServerError
    ELSE LET role_rank == WORKSPACE_ROLE_RANK[role]
             is_author == author_id # NullId /\ user_id = author_id
             has_admin == role_rank >= WORKSPACE_ROLE_RANK["admin"]
         IN IF has_admin \/ is_author THEN Allowed ELSE Forbidden

\* check_program_edit_access, after the admin bypass, given the resolved role
ProgramEditStatus(role, user_id, author_id, hide_from_non_members) ==
    IF role = None
    THEN NoMemberStatus(hide_from_non_members)
    ELSE IF role \notin DOMAIN WORKSPACE_ROLE_RANK
    THEN ServerError
    ELSE LET role_rank == WORKSPACE_ROLE_RANK[role]
             is_author == author_id # NullId /\ user_id = author_id
             has_admin == role_rank >= WORKSPACE_ROLE_RANK["admin"]
             has_editor == role_rank >= WORKSPACE_ROLE_RANK["editor"]
         IN IF has_admin \/ (is_author /\ has_editor) THEN Allowed ELSE Forbidden

NoRequest ==
    [op |-> "-", user_id |-> <<>>, permissions |-> "-", workspace_id |-> <<>>,
     minimum |-> "-", hide |-> FALSE, author_id |-> <<>>, role |-> "-", status |-> 0,
     cache_read |-> FALSE, store_read |-> FALSE, cache_written |-> FALSE]

AccessInit ==
    /\ memberships \in [Pairs -> WorkspaceRole \cup {None}]
    /\ \A p \in Pairs : p[1] \notin Callers \/ p[2] \notin MemberWorkspaces => memberships[p] = None
    /\ req = NoRequest

AccessIdle ==
    /\ memberships = [p \in Pairs |-> None]
    /\ req = NoRequest

\* Depends(require_permission(minimum)) for a caller with the given permission
RequirePermission(u, permissions, minimum) ==
    /\ req' = [NoRequest EXCEPT !.op = "require_permission", !.user_id = u,
                                !.permissions = permissions, !.minimum = minimum,
                                !.status = PermissionStatus(permissions, minimum)]
    /\ UNCHANGED <<mcache, memberships, otherThanAccess>>

\* await check_workspace_access(workspace_id, current_user, session, minimum_role, hide)
CheckWorkspaceAccess(u, permissions, w, minimum_role, hide) ==
    LET base == [NoRequest EXCEPT !.op = "check_workspace_access", !.user_id = u,
                                  !.permissions = permissions, !.workspace_id = w,
                                  !.minimum = minimum_role, !.hide = hide]
        r == GetWorkspaceRole(backend, mcache, memberships, w, u)
    IN /\ IF IsPlatformAdmin(permissions)
          THEN /\ req' = [base EXCEPT !.status = Allowed]
               /\ UNCHANGED mcache
          ELSE /\ req' = [base EXCEPT !.role = r.role,
                                      !.status = WorkspaceRoleStatus(r.role, minimum_role, hide),
                                      !.cache_read = r.cache_read,
                                      !.store_read = r.store_read,
                                      !.cache_written = r.cache_written]
               /\ mcache' = r.cache
       /\ UNCHANGED <<memberships, otherThanAccess>>

\* await check_program_edit_access(workspace_id, author_id, current_user, session, hide)
CheckProgramEditAccess(u, permissions, w, author_id, hide) ==
    LET base == [NoRequest EXCEPT !.op = "check_program_edit_access", !.user_id = u,
                                  !.permissions = permissions, !.workspace_id = w,
                                  !.author_id = author_id, !.hide = hide]
        r == GetWorkspaceRole(backend, mcache, memberships, w, u)
    IN /\ IF IsPlatformAdmin(permissions)
          THEN /\ req' = [base EXCEPT !.status = Allowed]
               /\ UNCHANGED mcache
          ELSE /\ req' = [base EXCEPT !.role = r.role,
                                      !.status = ProgramEditStatus(r.role, u, author_id, hide),
                                      !.cache_read = r.cache_read,
                                      !.store_read = r.store_read,
                                      !.cache_written = r.cache_written]
               /\ mcache' = r.cache
       /\ UNCHANGED <<memberships, otherThanAccess>>

\* A cached membership entry runs out of ttl between two requests.
MembershipExpire(u, w) ==
    /\ BuildKey(MembershipNamespace, MembershipKey(u, w)) \in DOMAIN mcache
    /\ mcache' = TtlExpire(mcache, BuildKey(MembershipNamespace, MembershipKey(u, w)))
    /\ UNCHANGED <<memberships, req, otherThanAccess>>

NextAccess ==
    \/ \E u \in Callers, permissions \in Permissions, minimum \in Permissions :
          RequirePermission(u, permissions, minimum)
    \/ \E u \in Callers, permissions \in Permissions, w \in WorkspaceIds,
          minimum_role \in WorkspaceRole, hide \in BOOLEAN :
          CheckWorkspaceAccess(u, permissions, w, minimum_role, hide)
    \/ \E u \in Callers, permissions \in Permissions, w \in WorkspaceIds,
          author_id \in UserIds \cup {NullId}, hide \in BOOLEAN :
          CheckProgramEditAccess(u, permissions, w, author_id, hide)
    \/ \E u \in Callers, w \in WorkspaceIds : MembershipExpire(u, w)

-----------------------------------------------------------------------------
(* JWKSCache and verify_auth0_token, one thread per verification *)

\* Verifications running at once (asyncio.to_thread workers).
NumThreads == 2

\* The clock stops here.
MaxTime == 2

\* JWKSCache._ttl, in ticks of the clock.
TtlTicks == 1

Threads == 1..NumThreads

Kids == {"k1", "k2"}

KeySets == SUBSET Kids \ {{}}

Unauthorized == 401
Unavailable == 503

\* self._jwks = None
NoJwks == [present |-> FALSE, keys |-> {}]

\* JWKSCache._is_expired
IsExpired(at, clock) == IF at = -1 THEN TRUE ELSE clock - at > TtlTicks

\* Mutant: the lock is not taken.
NoLock(l) == TRUE

\* with self._lock: a thread enters when no other thread holds the lock.
CanAcquire(l) == l = 0

\* Mutant: the retry asks for the cached set again.
RetryWithoutRefresh == FALSE

\* jwks_cache.get(force_refresh=True) of the retry
RetryForceRefresh == TRUE

\* Mutant: a second miss asks for the key set again.
SecondMissRetries == "get2"

\* rsa_key is None after the retry: raise 401, the verification is over.
SecondMissPc == "done"

IdleThread ==
    [pc |-> "idle", kid |-> "-", ttl_fetches |-> 0, forced_fetches |-> 0,
     miss1 |-> FALSE, published2 |-> FALSE, waited |-> FALSE, status |-> 0, reason |-> "-"]

JwksInit ==
    /\ jwks = NoJwks
    /\ fetched_at = -1
    /\ lock = 0
    /\ now = 0
    /\ provider = {"k1"}
    /\ th = [t \in Threads |-> IdleThread]
    /\ epochFetches = 0
    /\ sharedRefresh = FALSE

JwksIdle ==
    /\ jwks = NoJwks
    /\ fetched_at = -1
    /\ lock = 0
    /\ now = 0
    /\ provider = {}
    /\ th = <<>>
    /\ epochFetches = 0
    /\ sharedRefresh = FALSE

otherThanJwks == <<cacheVars, accessVars, otherComponents>>

\* _find_rsa_key(jwks, kid) is not None
FindRsaKey(keys, kid) == kid \in keys

\* rsa_key = _find_rsa_key(jwks_cache.get(), kid); if rsa_key is None: retry
AfterFirstLookup(rec, keys) ==
    IF FindRsaKey(keys, rec.kid)
    THEN [rec EXCEPT !.pc = "decode", !.kid = "-", !.waited = FALSE]
    ELSE [rec EXCEPT !.pc = "get2", !.miss1 = TRUE, !.waited = FALSE]

\* rsa_key = _find_rsa_key(jwks_cache.get(force_refresh=True), kid);
\* if rsa_key is None: raise 401
AfterSecondLookup(rec, keys, published) ==
    IF FindRsaKey(keys, rec.kid)
    THEN [rec EXCEPT !.pc = "decode", !.published2 = published]
    ELSE IF SecondMissPc = "done"
    THEN [rec EXCEPT !.pc = "done", !.kid = "-", !.published2 = published,
                     !.status = Unauthorized, !.reason = "unknown_key"]
    ELSE [rec EXCEPT !.pc = SecondMissPc]

\* What the thread does with the key set that get() handed it.
AfterLookup(rec, second, keys, published) ==
    IF second THEN AfterSecondLookup(rec, keys, published) ELSE AfterFirstLookup(rec, keys)

\* verify_auth0_token(token) starts: the unverified header is parsed. waited
\* notes that an expiry refresh by another thread is in flight at that moment.
Begin(t, header, kid) ==
    /\ th[t].pc = "idle"
    /\ th' = [th EXCEPT ![t] =
                 IF header = "ok"
                 THEN [IdleThread EXCEPT !.pc = "get1", !.kid = kid, !.waited = (lock # 0 /\ th[lock].pc = "fetch1")]
                 ELSE [IdleThread EXCEPT !.pc = "done", !.status = Unauthorized,
                                         !.reason = header]]
    /\ UNCHANGED <<jwks, fetched_at, lock, now, provider, epochFetches, sharedRefresh, otherThanJwks>>

\* JWKSCache.get up to the fetch: take the lock, then either start the fetch
\* (lock kept) or return the cached set (lock released) and look the kid up.
EnterGet(t, force, second) ==
    /\ CanAcquire(lock)
    /\ IF force \/ IsExpired(fetched_at, now)
       THEN /\ lock' = t
            /\ th' = [th EXCEPT ![t].pc = IF second THEN "fetch2" ELSE "fetch1",
                                ![t].waited = FALSE,
                                ![t].ttl_fetches = @ + (IF force THEN 0 ELSE 1),
                                ![t].forced_fetches = @ + (IF force THEN 1 ELSE 0)]
            /\ UNCHANGED sharedRefresh
       ELSE /\ lock' = lock
            /\ th' = [th EXCEPT ![t] = AfterLookup(@, second, jwks.keys, th[t].kid \in provider)]
            /\ sharedRefresh' = (sharedRefresh \/ th[t].waited)
    /\ UNCHANGED <<jwks, fetched_at, now, provider, epochFetches, otherThanJwks>>

\* rsa_key = _find_rsa_key(jwks_cache.get(), kid)
Get1(t) ==
    /\ th[t].pc = "get1"
    /\ EnterGet(t, FALSE, FALSE)

\* rsa_key = _find_rsa_key(jwks_cache.get(force_refresh=True), kid)
Get2(t) ==
    /\ th[t].pc = "get2"
    /\ EnterGet(t, RetryForceRefresh, TRUE)

\* _fetch returned: the set and its time are stored, the lock is released,
\* get returns the set and the kid is looked up in it. epochFetches counts the
\* fetches that refreshed an empty or expired cache since it last expired.
FetchOk(t) ==
    /\ th[t].pc \in {"fetch1", "fetch2"}
    /\ jwks' = [present |-> TRUE, keys |-> provider]
    /\ fetched_at' = now
    /\ lock' = 0
    /\ th' = [th EXCEPT ![t] = AfterLookup(@, th[t].pc = "fetch2", provider,
                                           th[t].kid \in provider)]
    /\ epochFetches' = epochFetches
                       + (IF th[t].pc = "fetch1" \/ IsExpired(fetched_at, now) THEN 1 ELSE 0)
    /\ UNCHANGED <<now, provider, sharedRefresh, otherThanJwks>>

\* Mutant: a failed fetch empties the cache.
DroppedOnFailure(cached) == NoJwks

\* self._jwks = self._fetch(): when _fetch raises, nothing is assigned.
KeptOnFailure(cached) == cached

\* _fetch raised (network error, error status, timeout): 503, lock released.
FetchFail(t) ==
    /\ th[t].pc \in {"fetch1", "fetch2"}
    /\ lock' = 0
    /\ jwks' = KeptOnFailure(jwks)
    /\ th' = [th EXCEPT ![t] = [IdleThread EXCEPT !.pc = "done", !.status = Unavailable,
                                                   !.reason = "jwks_fetch"]]
    /\ UNCHANGED <<fetched_at, now, provider, epochFetches, sharedRefresh, otherThanJwks>>

DecodeOutcomes == {"ok", "expired", "claims", "signature", "payload"}

\* jwt.decode and TokenPayload.model_validate: every failure is a 401.
Decode(t, outcome) ==
    /\ th[t].pc = "decode"
    /\ th' = [th EXCEPT ![t] = [IdleThread EXCEPT
                        !.pc = "done",
                        !.status = IF outcome = "ok" THEN Allowed ELSE Unauthorized,
                        !.reason = IF outcome = "ok" THEN "ok" ELSE "invalid_token"]]
    /\ UNCHANGED <<jwks, fetched_at, lock, now, provider, epochFetches, sharedRefresh, otherThanJwks>>

\* The provider replaces its published keys.
Rotate(keys) ==
    /\ keys # provider
    /\ provider' = keys
    /\ UNCHANGED <<jwks, fetched_at, lock, now, th, epochFetches, sharedRefresh, otherThanJwks>>

\* Time passes.
Tick ==
    /\ now < MaxTime
    /\ now' = now + 1
    /\ epochFetches' = IF ~IsExpired(fetched_at, now) /\ IsExpired(fetched_at, now + 1)
                       THEN 0 ELSE epochFetches
    /\ UNCHANGED <<jwks, fetched_at, lock, provider, th, sharedRefresh, otherThanJwks>>

NextJwks ==
    \/ \E t \in Threads, header \in {"ok", "header", "kid"}, kid \in Kids : Begin(t, header, kid)
    \/ \E t \in Threads : Get1(t)
    \/ \E t \in Threads : Get2(t)
    \/ \E t \in Threads : FetchOk(t)
    \/ \E t \in Threads : FetchFail(t)
    \/ \E t \in Threads, outcome \in DecodeOutcomes : Decode(t, outcome)
    \/ \E keys \in KeySets : Rotate(keys)
    \/ Tick

-----------------------------------------------------------------------------
(* check_group_access: group roles are read from the store on every call *)

\* class GroupRole(str, Enum)
GroupRole == {"owner", "admin", "editor", "viewer"}

GROUP_ROLE_RANK == [viewer |-> 0, editor |-> 1, admin |-> 2, owner |-> 3]

GroupIds == {<<"g", "1">>, <<"g", "2">>}

GroupPairs == Callers \X GroupIds

\* Mutant: a caller without a membership row is told the group does not exist.
GroupRoleStatusHidden(membership, minimum_role) ==
    IF membership = None
    THEN NotFound
    ELSE IF GROUP_ROLE_RANK[membership] < GROUP_ROLE_RANK[minimum_role]
    THEN Forbidden
    ELSE Allowed

\* check_group_access, after the admin bypass, given the membership row's role
GroupRoleStatus(membership, minimum_role) ==
    IF membership = None
    THEN Forbidden
    ELSE IF GROUP_ROLE_RANK[membership] < GROUP_ROLE_RANK[minimum_role]
    THEN Forbidden
    ELSE Allowed

\* GroupService.get_user_membership(group_id, user_id)
GetGroupMembership(rows, group_id, user_id) == rows[<<user_id, group_id>>]

\* Membership cache contents a group check can find itself running over.
GroupInitCaches ==
    {<<>>, MembershipCacheSet("memory", <<>>, <<"u", "1">>, <<"w", "1">>, "viewer")}

GroupInit == group_memberships \in [GroupPairs -> GroupRole \cup {None}]

GroupIdle == group_memberships = [p \in GroupPairs |-> None]

\* await check_group_access(group_id, current_user, session, minimum_role);
\* the group id is kept in the request's workspace_id field.
CheckGroupAccess(u, permissions, g, minimum_role) ==
    LET base == [NoRequest EXCEPT !.op = "check_group_access", !.user_id = u,
                                  !.permissions = permissions, !.workspace_id = g,
                                  !.minimum = minimum_role]
        membership == GetGroupMembership(group_memberships, g, u)
    IN /\ IF IsPlatformAdmin(permissions)
          THEN req' = [base EXCEPT !.status = Allowed]
          ELSE req' = [base EXCEPT !.role = membership,
                                   !.status = GroupRoleStatus(membership, minimum_role),
                                   !.store_read = TRUE]
       /\ UNCHANGED <<mcache, memberships, group_memberships, backend, expect, got, twice,
                      jwksVars, identityVars, routeVars>>

\* GroupService.add_membership / update_membership / remove_membership commit
\* a change of the caller's row between two checks.
GroupMembershipChange(u, g, role) ==
    /\ group_memberships[<<u, g>>] # role
    /\ group_memberships' = [group_memberships EXCEPT ![<<u, g>>] = role]
    /\ UNCHANGED <<cacheVars, accessVars, jwksVars, identityVars, routeVars>>

NextGroup ==
    \/ \E u \in Callers, permissions \in Permissions, g \in GroupIds,
          minimum_role \in GroupRole : CheckGroupAccess(u, permissions, g, minimum_role)
    \/ \E u \in Callers, g \in GroupIds, role \in GroupRole \cup {None} :
          GroupMembershipChange(u, g, role)

-----------------------------------------------------------------------------
(* get_current_user over the user cache, the user rows and the profile endpoint *)

\* Requests being served at once.
NumRequests == 2

\* settings.cache_user_ttl_seconds, in ticks of the clock.
CacheTtlTicks == 1

Requests == 1..NumRequests

\* auth0_id of the accounts: the one that logs in, and another account that
\* is already there.
Subjects == {"auth0|1", "auth0|2"}

LoginSubjects == {"auth0|1"}

Conflict == 409

\* Strings whose content matters are sequences of characters; "" and None,
\* which `if not email` and `if not name` treat alike, are <<>>.
\* The email and name claims of a token that carries them.
ClaimEmail == <<"A", "@", "x", " ">>

ClaimName == <<"A", "n">>

\* The email and name fields of a /userinfo body that carries them.
ProfileEmail == <<"A", "@", "p">>

ProfileName == <<"P", "a">>

UpperToLower == [A |-> "a", P |-> "p"]

\* str.lower()
RECURSIVE Lower(_)
Lower(str) ==
    IF str = <<>> THEN <<>>
    ELSE <<IF Head(str) \in DOMAIN UpperToLower THEN UpperToLower[Head(str)] ELSE Head(str)>>
         \o Lower(Tail(str))

\* str.strip()
RECURSIVE Strip(_)
Strip(str) ==
    IF str = <<>> THEN <<>>
    ELSE IF Head(str) = " " THEN Strip(Tail(str))
    ELSE IF str[Len(str)] = " " THEN Strip(SubSeq(str, 1, Len(str) - 1))
    ELSE str

\* UserCreate._normalize_email
NormalizeEmail(v) == Lower(Strip(v))

\* No row, no cached user, no result: Python's None where a user is expected.
NoUser == [auth0_id |-> "-", email |-> <<>>, name |-> <<>>, permissions |-> "-"]

\* The account that is already there.
OtherUser ==
    [auth0_id |-> "auth0|2", email |-> <<"b", "@", "y">>, name |-> <<"B", "o">>,
     permissions |-> "admin"]

\* UserCreate(auth0_id=auth0_id, email=email, name=name) as User(**data.model_dump())
NewUser(auth0_id, email, name) ==
    [auth0_id |-> auth0_id, email |-> NormalizeEmail(email), name |-> Strip(name),
     permissions |-> "viewer"]

NoEntry == [present |-> FALSE, user |-> NoUser, expires_at |-> 0]

\* Mutant: the cache is never believed.
UserCacheGetMisses(cache, at, auth0_id) == NoUser

\* UserCache.get: None on a miss; an entry past its ttl is gone.
UserCacheGet(cache, at, auth0_id) ==
    IF cache[auth0_id].present /\ at < cache[auth0_id].expires_at
    THEN cache[auth0_id].user
    ELSE NoUser

\* Mutant: a marker is cached for a subject that could not be resolved.
AbsentMarker(cache, at, auth0_id) ==
    [cache EXCEPT ![auth0_id] = [present |-> TRUE, user |-> NoUser,
                                 expires_at |-> at + 1]]

\* get_current_user writes nothing to the cache on a path that raises.
NoCacheWrite(cache, at, auth0_id) == cache

\* UserCache.set, with the ttl the backend was built with
UserCacheSet(cache, at, auth0_id, user) ==
    [cache EXCEPT ![auth0_id] = [present |-> TRUE, user |-> user,
                                 expires_at |-> at + CacheTtlTicks]]

IdleRequest ==
    [pc |-> "idle", sub |-> "-", claim_email |-> <<>>, claim_name |-> <<>>, profile |-> "-",
     email |-> <<>>, name |-> <<>>, user |-> NoUser, status |-> 0, hit |-> FALSE,
     saw_entry |-> FALSE, store_reads |-> 0, profile_calls |-> 0, creates |-> 0,
     cache_writes |-> 0, started |-> 0]

\* How a request ends: the locals are dropped, the outcome and the record of
\* what the call did stay.
Finished(rec, status, user) ==
    [rec EXCEPT !.pc = "done", !.status = status, !.user = user,
                !.email = <<>>, !.name = <<>>]

IdentityInit ==
    /\ users = [s \in Subjects |-> IF s \in LoginSubjects THEN NoUser ELSE OtherUser]
    /\ ucache = [s \in Subjects |->
                    IF s \in LoginSubjects THEN NoEntry
                    ELSE [present |-> TRUE, user |-> OtherUser, expires_at |-> CacheTtlTicks]]
    /\ time = 0
    /\ ireq = [r \in Requests |-> IdleRequest]
    /\ ires = IdleRequest
    /\ changed_at = [s \in Subjects |-> -1]
    /\ pre_change = [s \in Subjects |-> NoUser]

IdentityIdle ==
    /\ users = [s \in Subjects |-> NoUser]
    /\ ucache = [s \in Subjects |-> NoEntry]
    /\ time = 0
    /\ ireq = <<>>
    /\ ires = IdleRequest
    /\ changed_at = [s \in Subjects |-> -1]
    /\ pre_change = [s \in Subjects |-> NoUser]

otherThanIdentity == <<cacheVars, accessVars, jwksVars, groupVars, routeVars>>

\* The request in slot r moves on to rec; when that ends it, the slot is free
\* again and rec is the call that ended last.
IdentityStep(r, rec) ==
    IF rec.pc = "done"
    THEN ireq' = [ireq EXCEPT ![r] = IdleRequest] /\ ires' = rec
    ELSE ireq' = [ireq EXCEPT ![r] = rec] /\ ires' = ires

\* get_current_user is entered with a token that verify_auth0_token accepted.
BeginIdentity(r, sub) ==
    /\ ireq[r].pc = "idle"
    /\ IdentityStep(r, [IdleRequest EXCEPT !.pc = "cache_get", !.sub = sub, !.started = time])
    /\ UNCHANGED <<users, ucache, time, changed_at, pre_change, otherThanIdentity>>

\* cached_user = await user_cache.get(auth0_id); a hit is returned at once.
IdentityCacheGet(r) ==
    /\ ireq[r].pc = "cache_get"
    /\ LET cached_user == UserCacheGet(ucache, time, ireq[r].sub)
           entry == ucache[ireq[r].sub]
           seen == [ireq[r] EXCEPT !.saw_entry = entry.present /\ time < entry.expires_at]
       IN IdentityStep(r, IF cached_user # NoUser
                          THEN Finished([seen EXCEPT !.hit = TRUE], Allowed, cached_user)
                          ELSE [seen EXCEPT !.pc = "store_get"])
    /\ UNCHANGED <<users, ucache, time, changed_at, pre_change, otherThanIdentity>>

\* The backend raises inside user_cache.get or user_cache.set (RedisCache and
\* an unreachable server): nothing catches it, the request ends as a 500.
IdentityCacheFails(r) ==
    /\ backend = "redis"
    /\ ireq[r].pc \in {"cache_get", "cache_set"}
    /\ IdentityStep(r, Finished([ireq[r] EXCEPT !.profile = "cache_error"],
                                ServerError, NoUser))
    /\ UNCHANGED <<users, ucache, time, changed_at, pre_change, otherThanIdentity>>

\* user = await user_service.get_by_auth0_id(auth0_id); without a row the
\* email and name claims of the payload are read, and without an email claim
\* /userinfo is asked.
IdentityStoreGet(r, has_email, has_name) ==
    /\ ireq[r].pc = "store_get"
    /\ LET user == users[ireq[r].sub]
           read == [ireq[r] EXCEPT !.store_reads = @ + 1]
           email == IF has_email THEN ClaimEmail ELSE <<>>
           name == IF has_name THEN ClaimName ELSE <<>>
       IN IdentityStep(r, IF user # NoUser
                          THEN [read EXCEPT !.pc = "cache_set", !.user = user]
                          ELSE [read EXCEPT
                                   !.pc = IF email = <<>> THEN "userinfo" ELSE "create",
                                   !.claim_email = email, !.claim_name = name,
                                   !.email = email,
                                   !.name = IF email # <<>> /\ name = <<>> THEN email ELSE name])
    /\ users[ireq[r].sub] # NoUser => has_email /\ has_name   \* the claims are not read
    /\ UNCHANGED <<users, ucache, time, changed_at, pre_change, otherThanIdentity>>

ProfileOutcomes == {"error", "empty", "email", "name", "email_name"}

\* GET /userinfo: an httpx.HTTPError (network error, error status, timeout),
\* or a JSON body with or without email and name.
IdentityUserinfo(r, outcome) ==
    /\ ireq[r].pc = "userinfo"
    /\ LET email == IF outcome \in {"email", "email_name"} THEN ProfileEmail ELSE <<>>
           got_name == IF outcome \in {"name", "email_name"} THEN ProfileName ELSE <<>>
           name == IF ireq[r].name # <<>> THEN ireq[r].name ELSE got_name
           called == [ireq[r] EXCEPT !.profile_calls = @ + 1, !.profile = outcome]
       IN /\ IdentityStep(r, IF outcome = "error"
                             THEN Finished(called, Unauthorized, NoUser)
                             ELSE IF email = <<>>
                             THEN Finished(called, Unauthorized, NoUser)
                             ELSE [called EXCEPT !.pc = "create", !.email = email,
                                                 !.name = IF name = <<>> THEN email ELSE name])
          /\ ucache' = IF outcome # "error" /\ email = <<>>
                       THEN NoCacheWrite(ucache, time, ireq[r].sub)
                       ELSE ucache
    /\ UNCHANGED <<users, time, changed_at, pre_change, otherThanIdentity>>

\* user = await user_service.create(user_data): the row is committed, or the
\* unique constraint on auth0_id turns the insert into a 409.
IdentityCreate(r) ==
    /\ ireq[r].pc = "create"
    /\ IF users[ireq[r].sub] = NoUser
       THEN LET user == NewUser(ireq[r].sub, ireq[r].email, ireq[r].name)
            IN /\ users' = [users EXCEPT ![ireq[r].sub] = user]
               /\ IdentityStep(r, [ireq[r] EXCEPT !.pc = "cache_set", !.user = user,
                                                   !.creates = @ + 1])
       ELSE /\ IdentityStep(r, Finished(ireq[r], Conflict, NoUser))
            /\ UNCHANGED users
    /\ UNCHANGED <<ucache, time, changed_at, pre_change, otherThanIdentity>>

\* await user_cache.set(auth0_id, user); return user
IdentityCacheSet(r) ==
    /\ ireq[r].pc = "cache_set"
    /\ ucache' = UserCacheSet(ucache, time, ireq[r].sub, ireq[r].user)
    /\ IdentityStep(r, Finished([ireq[r] EXCEPT !.cache_writes = @ + 1], Allowed,
                                ireq[r].user))
    /\ UNCHANGED <<users, time, changed_at, pre_change, otherThanIdentity>>

\* The entry of a subject runs out of ttl.
UserCacheExpire(sub) ==
    /\ ucache[sub].present
    /\ ucache' = [ucache EXCEPT ![sub] = NoEntry]
    /\ UNCHANGED <<users, time, ireq, ires, changed_at, pre_change, otherThanIdentity>>

\* UserService.update(user_id, UserUpdateAdmin(permissions=...)) commits.
UpdateUser(sub, permissions) ==
    /\ users[sub] # NoUser
    /\ users[sub].permissions # permissions
    /\ users' = [users EXCEPT ![sub].permissions = permissions]
    /\ changed_at' = [changed_at EXCEPT ![sub] = time]
    /\ pre_change' = [pre_change EXCEPT ![sub] = users[sub]]
    /\ UNCHANGED <<ucache, time, ireq, ires, otherThanIdentity>>

\* Time passes.
TimePasses ==
    /\ time < MaxTime
    /\ time' = time + 1
    /\ UNCHANGED <<users, ucache, ireq, ires, changed_at, pre_change, otherThanIdentity>>

\* The account that logs in, when it is already there.
KnownUser ==
    [auth0_id |-> "auth0|1", email |-> <<"a", "@", "x">>, name |-> <<"A", "n">>,
     permissions |-> "admin"]

\* Returning users only: the row is there from the start.
StaleInit ==
    /\ users = [s \in Subjects |-> IF s \in LoginSubjects THEN KnownUser ELSE OtherUser]
    /\ ucache = [s \in Subjects |-> NoEntry]
    /\ time = 0
    /\ ireq = [r \in Requests |-> IdleRequest]
    /\ ires = IdleRequest
    /\ changed_at = [s \in Subjects |-> -1]
    /\ pre_change = [s \in Subjects |-> NoUser]

NextStale ==
    \/ \E r \in Requests, sub \in LoginSubjects : BeginIdentity(r, sub)
    \/ \E r \in Requests : IdentityCacheGet(r)
    \/ \E r \in Requests : IdentityStoreGet(r, TRUE, TRUE)
    \/ \E r \in Requests : IdentityCacheSet(r)
    \/ \E sub \in LoginSubjects, permissions \in Permissions : UpdateUser(sub, permissions)
    \/ TimePasses

NextIdentity ==
    \/ \E r \in Requests, sub \in LoginSubjects : BeginIdentity(r, sub)
    \/ \E r \in Requests : IdentityCacheGet(r)
    \/ \E r \in Requests : IdentityCacheFails(r)
    \/ \E r \in Requests, has_email \in BOOLEAN, has_name \in BOOLEAN :
          IdentityStoreGet(r, has_email, has_name)
    \/ \E r \in Requests, outcome \in ProfileOutcomes : IdentityUserinfo(r, outcome)
    \/ \E r \in Requests : IdentityCreate(r)
    \/ \E r \in Requests : IdentityCacheSet(r)
    \/ \E sub \in LoginSubjects : UserCacheExpire(sub)

(* Route handlers that change the store (routers/workspaces.py, routers/programs.py) *)

NoContent == 204

ProgramIds == {"p1"}

\* Two requests are in flight at most.
HandlerSlots == {"h1", "h2"}

Routes == {"update_workspace", "delete_workspace", "update_program", "delete_program"}

ProgramRoutes == {"update_program", "delete_program"}

\* The platform permission of the resolved caller: an administrator or not.
HandlerPermissions == {"admin", "member"}

IdleHandler ==
    [pc |-> "idle", route |-> "-", workspace_id |-> <<>>, program_id |-> "-",
     author_id |-> <<>>, user_id |-> <<>>, permissions |-> "-", check_status |-> 0,
     status |-> 0, mutated |-> FALSE]

\* Mutant: the handler goes on whatever the check answered.
ProceedsAlways(check_status) == TRUE

\* A check that does not allow raises HTTPException, which leaves the handler.
Proceeds(check_status) == check_status = Allowed

\* WorkspaceRepository.get / ProgramRepository.get: rows with deleted_at set are not found.
IsLive(state) == state # "deleted"

HandlerInit ==
    /\ workspaces = [w \in WorkspaceIds |-> "live"]
    /\ programs \in [ProgramIds -> [workspace_id : MemberWorkspaces,
                                    author_id : Callers \cup {NullId},
                                    state : {"live"}]]
    /\ hreq = [r \in HandlerSlots |-> IdleHandler]
    /\ hres = IdleHandler

HandlerIdle ==
    /\ workspaces = [w \in WorkspaceIds |-> "live"]
    /\ programs = <<>>
    /\ hreq = <<>>
    /\ hres = IdleHandler

otherThanHandler ==
    <<backend, expect, got, twice, memberships, req, jwksVars, groupVars, identityVars,
      rateVars, storeVars, served>>

\* The request in slot r moves on to rec; when that ends it, the slot is free
\* again and rec is the call that ended last.
HandlerStep(r, rec) ==
    IF rec.pc = "done"
    THEN hreq' = [hreq EXCEPT ![r] = IdleHandler] /\ hres' = rec
    ELSE hreq' = [hreq EXCEPT ![r] = rec] /\ hres' = hres

\* A request for a workspace route arrives.
BeginWorkspaceRoute(r, route, w) ==
    /\ hreq[r].pc = "idle"
    /\ route \notin ProgramRoutes
    /\ HandlerStep(r, [IdleHandler EXCEPT !.pc = "identity", !.route = route,
                                          !.workspace_id = w])
    /\ UNCHANGED <<mcache, workspaces, programs, otherThanHandler>>

\* A request for a program route arrives.
BeginProgramRoute(r, route, p) ==
    /\ hreq[r].pc = "idle"
    /\ route \in ProgramRoutes
    /\ HandlerStep(r, [IdleHandler EXCEPT !.pc = "identity", !.route = route,
                                          !.program_id = p])
    /\ UNCHANGED <<mcache, workspaces, programs, otherThanHandler>>

\* current_user: UserOut = Depends(get_current_user) is resolved before the
\* handler body runs; when it raises, the body never runs.
HandlerIdentity(r, u, permissions, resolved) ==
    /\ hreq[r].pc = "identity"
    /\ HandlerStep(r,
          IF resolved
          THEN [hreq[r] EXCEPT !.user_id = u, !.permissions = permissions,
                               !.pc = IF hreq[r].route \in ProgramRoutes
                                      THEN "load" ELSE "check"]
          ELSE [hreq[r] EXCEPT !.pc = "done", !.status = Unauthorized])
    /\ UNCHANGED <<mcache, workspaces, programs, otherThanHandler>>

\* program = await svc.get(program_id)
HandlerLoad(r) ==
    /\ hreq[r].pc = "load"
    /\ LET program == programs[hreq[r].program_id]
       IN HandlerStep(r,
             IF IsLive(program.state)
             THEN [hreq[r] EXCEPT !.workspace_id = program.workspace_id,
                                  !.author_id = program.author_id, !.pc = "check"]
             ELSE [hreq[r] EXCEPT !.pc = "done", !.status = NotFound])
    /\ UNCHANGED <<mcache, workspaces, programs, otherThanHandler>>

\* The role the route asks of the caller.
RouteStatus(route, role, user_id, author_id) ==
    CASE route = "update_workspace" -> WorkspaceRoleStatus(role, "admin", FALSE)
      [] route = "delete_workspace" -> WorkspaceRoleStatus(role, "owner", FALSE)
      [] route = "delete_program" -> WorkspaceRoleStatus(role, "admin", FALSE)
      [] route = "update_program" -> ProgramEditStatus(role, user_id, author_id, FALSE)

\* await check_workspace_access(...) / await check_program_edit_access(...)
HandlerCheck(r) ==
    /\ hreq[r].pc = "check"
    /\ LET rec == hreq[r]
           got_role == GetWorkspaceRole(backend, mcache, memberships, rec.workspace_id,
                                        rec.user_id)
           check_status == IF IsPlatformAdmin(rec.permissions) THEN Allowed
                           ELSE RouteStatus(rec.route, got_role.role, rec.user_id,
                                            rec.author_id)
       IN /\ mcache' = IF IsPlatformAdmin(rec.permissions) THEN mcache ELSE got_role.cache
          /\ HandlerStep(r,
                IF Proceeds(check_status)
                THEN [rec EXCEPT !.check_status = check_status, !.pc = "mutate"]
                ELSE [rec EXCEPT !.check_status = check_status, !.pc = "done",
                                 !.status = check_status])
    /\ UNCHANGED <<workspaces, programs, otherThanHandler>>

\* WorkspaceRepository.delete: the workspace and its content get deleted_at;
\* the membership rows stay.
DeleteWorkspaceRows(rows, w) ==
    [p \in DOMAIN rows |->
        IF rows[p].workspace_id = w THEN [rows[p] EXCEPT !.state = "deleted"] ELSE rows[p]]

\* svc.update(workspace_id, body) / svc.delete(workspace_id)
HandlerMutateWorkspace(r) ==
    /\ hreq[r].pc = "mutate"
    /\ hreq[r].route \notin ProgramRoutes
    /\ LET rec == hreq[r]
           w == rec.workspace_id
       IN IF ~IsLive(workspaces[w])
          THEN /\ HandlerStep(r, [rec EXCEPT !.pc = "done", !.status = NotFound])
               /\ UNCHANGED <<workspaces, programs>>
          ELSE IF rec.route = "update_workspace"
          THEN /\ workspaces' = [workspaces EXCEPT ![w] = "patched"]
               /\ UNCHANGED programs
               /\ HandlerStep(r, [rec EXCEPT !.pc = "done", !.status = Allowed,
                                             !.mutated = TRUE])
          ELSE /\ workspaces' = [workspaces EXCEPT ![w] = "deleted"]
               /\ programs' = DeleteWorkspaceRows(programs, w)
               /\ HandlerStep(r, [rec EXCEPT !.pc = "done", !.status = NoContent,
                                             !.mutated = TRUE])
    /\ UNCHANGED <<mcache, otherThanHandler>>

\* svc.update(program_id, body) / svc.delete(program_id)
HandlerMutateProgram(r) ==
    /\ hreq[r].pc = "mutate"
    /\ hreq[r].route \in ProgramRoutes
    /\ LET rec == hreq[r]
           p == rec.program_id
       IN IF ~IsLive(programs[p].state)
          THEN /\ HandlerStep(r, [rec EXCEPT !.pc = "done", !.status = NotFound])
               /\ UNCHANGED programs
          ELSE IF rec.route = "update_program"
          THEN /\ programs' = [programs EXCEPT ![p].state = "patched"]
               /\ HandlerStep(r, [rec EXCEPT !.pc = "done", !.status = Allowed,
                                             !.mutated = TRUE])
          ELSE /\ programs' = [programs EXCEPT ![p].state = "deleted"]
               /\ HandlerStep(r, [rec EXCEPT !.pc = "done", !.status = NoContent,
                                             !.mutated = TRUE])
    /\ UNCHANGED <<mcache, workspaces, otherThanHandler>>

NextHandler ==
    \/ \E r \in HandlerSlots, route \in Routes, w \in MemberWorkspaces :
          BeginWorkspaceRoute(r, route, w)
    \/ \E r \in HandlerSlots, route \in Routes, p \in ProgramIds : BeginProgramRoute(r, route, p)
    \/ \E r \in HandlerSlots, u \in Callers, permissions \in HandlerPermissions,
          resolved \in BOOLEAN : HandlerIdentity(r, u, permissions, resolved)
    \/ \E r \in HandlerSlots : HandlerLoad(r)
    \/ \E r \in HandlerSlots : HandlerCheck(r)
    \/ \E r \in HandlerSlots : HandlerMutateWorkspace(r)
    \/ \E r \in HandlerSlots : HandlerMutateProgram(r)

-----------------------------------------------------------------------------
(* The rate limiter (app/core/rate_limiter.py) *)

\* check(key, limit, window_seconds) is called with these two throughout.
RateLimit == 2
WindowSeconds == 2

\* The clock stops after this many half seconds.
MaxClock == 8

\* No more calls than this are made on a key inside one window.
MaxCalls == 4

\* time.time() is a float: the model counts half seconds.
HalvesPerSecond == 2

RateKeys == {"/a:ip1", "/a:ip2"}

NoWindow == [present |-> FALSE, hits |-> 0, expires_at |-> 0, gone_at |-> 0]

NoCall == [made |-> FALSE, at |-> 0, window_ends |-> 0, nth |-> 0, allowed |-> FALSE,
           retry_after |-> 0, wrote |-> FALSE]

\* int(x) of a non-negative float
IntSeconds(halves) == halves \div HalvesPerSecond

\* max(1, int(entry.expires_at - now))
RemainingSeconds(expires_at, at) ==
    LET s == IntSeconds(expires_at - at) IN IF s >= 1 THEN s ELSE 1

\* self._cache.get(key): the backend drops an entry when its ttl has run out.
RateCacheGet(store, key, at) ==
    IF store[key].present /\ at < store[key].gone_at THEN store[key] ELSE NoWindow

\* self._cache.set(key, _Window(hits, expires_at), ttl=ttl_seconds)
RateCacheSet(store, key, at, hits, expires_at, ttl_seconds) ==
    [store EXCEPT ![key] = [present |-> TRUE, hits |-> hits, expires_at |-> expires_at,
                            gone_at |-> at + ttl_seconds * HalvesPerSecond]]

\* No check() call is running in the slot.
NotChecking == [pc |-> "idle", key |-> "-", at |-> 0, entry |-> NoWindow]

RateInit ==
    /\ windows = [k \in RateKeys |-> NoWindow]
    /\ rl_time = 0
    /\ calls = [k \in RateKeys |-> NoCall]
    /\ checking = <<>>
    /\ granted = [k \in RateKeys |-> 0]

RateIdle ==
    /\ windows = <<>>
    /\ rl_time = 0
    /\ calls = <<>>
    /\ checking = <<>>
    /\ granted = <<>>

otherThanRate ==
    <<cacheVars, accessVars, jwksVars, groupVars, identityVars, handlerVars, storeVars,
      served>>

\* The call's place among the calls of its window: a window starts with the
\* first call on the key, or with the first call after the previous one ended.
CallInWindow(last, at, allowed, retry_after, wrote) ==
    IF last.made /\ at < last.window_ends
    THEN [made |-> TRUE, at |-> at, window_ends |-> last.window_ends,
          nth |-> last.nth + 1, allowed |-> allowed, retry_after |-> retry_after,
          wrote |-> wrote]
    ELSE [made |-> TRUE, at |-> at,
          window_ends |-> at + WindowSeconds * HalvesPerSecond,
          nth |-> 1, allowed |-> allowed, retry_after |-> retry_after, wrote |-> wrote]

\* await rate_limiter.check(key, RateLimit, WindowSeconds)
RateCheck(key) ==
    LET at == rl_time
        entry == RateCacheGet(windows, key, at)
    IN /\ calls[key].made /\ at < calls[key].window_ends => calls[key].nth < MaxCalls
       /\ IF ~entry.present \/ at >= entry.expires_at
          THEN /\ windows' = RateCacheSet(windows, key, at, 1,
                                          at + WindowSeconds * HalvesPerSecond,
                                          WindowSeconds)
               /\ calls' = [calls EXCEPT ![key] = CallInWindow(@, at, TRUE, 0, TRUE)]
          ELSE IF entry.hits >= RateLimit
          THEN /\ windows' = windows
               /\ calls' = [calls EXCEPT ![key] =
                               CallInWindow(@, at, FALSE,
                                            RemainingSeconds(entry.expires_at, at), FALSE)]
          ELSE /\ windows' = RateCacheSet(windows, key, at, entry.hits + 1,
                                          entry.expires_at,
                                          RemainingSeconds(entry.expires_at, at))
               /\ calls' = [calls EXCEPT ![key] = CallInWindow(@, at, TRUE, 0, TRUE)]
       /\ UNCHANGED <<rl_time, checking, granted, otherThanRate>>

\* Half a second passes.
RateTick ==
    /\ rl_time < MaxClock
    /\ rl_time' = rl_time + 1
    /\ UNCHANGED <<windows, calls, checking, granted, otherThanRate>>

NextRate ==
    \/ \E key \in RateKeys : RateCheck(key)
    \/ RateTick

\* Concurrent calls inside one window: the clock stands still.
ConcurrentRateInit ==
    /\ windows = [k \in RateKeys |-> NoWindow]
    /\ rl_time = 0
    /\ calls = [k \in RateKeys |-> NoCall]
    /\ checking = [r \in Requests |-> NotChecking]
    /\ granted = [k \in RateKeys |-> 0]

\* now = time.time(); entry = await self._cache.get(key)
RateRead(r, key) ==
    /\ checking[r].pc = "idle"
    /\ granted[key] < MaxCalls
    /\ checking' = [checking EXCEPT ![r] =
                       [pc |-> "read", key |-> key, at |-> rl_time,
                        entry |-> RateCacheGet(windows, key, rl_time)]]
    /\ UNCHANGED <<windows, rl_time, calls, granted, otherThanRate>>

\* The rest of check(): the answer, and the cache set of an allowed call.
RateWrite(r) ==
    /\ checking[r].pc = "read"
    /\ LET key == checking[r].key
           at == checking[r].at
           entry == checking[r].entry
       IN IF ~entry.present \/ at >= entry.expires_at
          THEN /\ windows' = RateCacheSet(windows, key, rl_time, 1,
                                          at + WindowSeconds * HalvesPerSecond,
                                          WindowSeconds)
               /\ granted' = [granted EXCEPT ![key] = @ + 1]
          ELSE IF entry.hits >= RateLimit
          THEN UNCHANGED <<windows, granted>>
          ELSE /\ windows' = RateCacheSet(windows, key, rl_time, entry.hits + 1,
                                          entry.expires_at,
                                          RemainingSeconds(entry.expires_at, at))
               /\ granted' = [granted EXCEPT ![key] = @ + 1]
    /\ checking' = [checking EXCEPT ![r] = NotChecking]
    /\ UNCHANGED <<rl_time, calls, otherThanRate>>

NextConcurrentRate ==
    \/ \E r \in Requests, key \in RateKeys : RateRead(r, key)
    \/ \E r \in Requests : RateWrite(r)

-----------------------------------------------------------------------------
(* Soft delete in the repositories (app/repositories) *)

\* Repository calls stop after this many.
MaxStamp == 3

SdWorkspaces == {"w1", "w2"}
SdPrograms == {"p1"}
SdEvents == {"e1", "e2", "e3", "e9"}
SdTasks == {"t1", "t2", "t3", "t9"}
SdTroops == {"tr1", "tr2"}

RowIds == SdWorkspaces \cup SdPrograms \cup SdEvents \cup SdTasks \cup SdTroops

\* The rows that create requests insert; the others are there from the start.
Creatable == {"e9", "t9"}

\* Program.workspace_id, Event.workspace_id, Troop.workspace_id
WorkspaceOf ==
    [x \in SdPrograms \cup SdEvents \cup SdTroops |->
        IF x \in {"e3", "tr2"} THEN "w2" ELSE "w1"]

\* Event.program_id ("-": None)
ProgramOf == [e \in SdEvents |-> IF e = "e1" THEN "p1" ELSE "-"]

\* Task.event_id
EventOf == [k \in SdTasks |-> CASE k = "t1" -> "e1" [] k = "t3" -> "e3" [] OTHER -> "e2"]

\* TroopParticipation rows (troop, event)
Participations == {<<"tr1", "e1">>, <<"tr1", "e2">>, <<"tr2", "e3">>}

NoRow == [exists |-> FALSE, deleted_at |-> 0]
LiveRow == [exists |-> TRUE, deleted_at |-> 0]

\* .where(X.id == id, X.deleted_at.is_(None)) finds the row
IsFound(t, x) == t[x].exists /\ t[x].deleted_at = 0

\* select(Event.id).where(Event.workspace_id == workspace_id)
EventIdsOfWorkspace(t, w) == {e \in SdEvents : t[e].exists /\ WorkspaceOf[e] = w}

\* select(Event.id).where(Event.program_id == program_id)
EventIdsOfProgram(t, p) == {e \in SdEvents : t[e].exists /\ ProgramOf[e] = p}

\* Mutant: the tasks of the events are not looked up.
NoTaskIds(t, event_ids) == {}

\* select(Task.id).where(Task.event_id.in_(event_ids))
TaskIdsOfEvents(t, event_ids) == {k \in SdTasks : t[k].exists /\ EventOf[k] \in event_ids}

\* select(Program.id).where(Program.workspace_id == workspace_id)
ProgramIdsOfWorkspace(t, w) == {q \in SdPrograms : t[q].exists /\ WorkspaceOf[q] = w}

\* update(...).where(id in ids, deleted_at.is_(None)).values(deleted_at=now)
SoftDelete(t, ids, at) ==
    [x \in DOMAIN t |-> IF x \in ids /\ IsFound(t, x)
                        THEN [t[x] EXCEPT !.deleted_at = at] ELSE t[x]]

\* res.rowcount or 0 of the last update
RowCount(t, x) == IF IsFound(t, x) THEN 1 ELSE 0

\* The ids a repository delete(x) updates.
DeletedIds(t, x) ==
    CASE x \in SdWorkspaces ->
            LET event_ids == EventIdsOfWorkspace(t, x)
            IN TaskIdsOfEvents(t, event_ids) \cup event_ids \cup ProgramIdsOfWorkspace(t, x)
               \cup {r \in SdTroops : WorkspaceOf[r] = x} \cup {x}
      [] x \in SdPrograms ->
            LET event_ids == EventIdsOfProgram(t, x)
            IN TaskIdsOfEvents(t, event_ids) \cup event_ids \cup {x}
      [] x \in SdEvents -> TaskIdsOfEvents(t, {x}) \cup {x}
      [] OTHER -> {x}

\* list_troop_events: the events of a troop, deleted ones left out
ListTroopEvents(t, troop) ==
    {e \in SdEvents : <<troop, e>> \in Participations /\ IsFound(t, e)}

\* count_troop_events: the participation rows of a troop
CountTroopEvents(t, troop) ==
    Cardinality({e \in SdEvents : <<troop, e>> \in Participations /\ t[e].exists})

\* list_for_workspace / list_by_workspace / list_for_event and their counts
ListChildren(t, ids, parent_of, parent) ==
    {x \in ids : parent_of[x] = parent /\ IsFound(t, x)}

NoRepoCall == [op |-> "-", target |-> "-", rowcount |-> 0, before |-> <<>>]

NoServed ==
    [route |-> "-", user_id |-> <<>>, permissions |-> "-", program_workspace |-> <<>>,
     workspace_id |-> <<>>, status |-> 0, content_returned |-> FALSE]

StoreInit ==
    /\ table = [x \in RowIds |-> IF x \in Creatable THEN NoRow ELSE LiveRow]
    /\ stamp = 0
    /\ repo_call = NoRepoCall
    /\ creating = {}

StoreIdle ==
    /\ table = <<>>
    /\ stamp = 0
    /\ repo_call = NoRepoCall
    /\ creating = {}

otherThanStore ==
    <<cacheVars, accessVars, jwksVars, groupVars, identityVars, handlerVars, rateVars,
      served>>

\* XRepository.delete(x), in one transaction.
RepositoryDelete(x) ==
    /\ stamp < MaxStamp
    /\ table[x].exists
    /\ stamp' = stamp + 1
    /\ table' = SoftDelete(table, DeletedIds(table, x), stamp + 1)
    /\ repo_call' = [op |-> "delete", target |-> x, rowcount |-> RowCount(table, x),
                     before |-> table]
    /\ UNCHANGED <<creating, otherThanStore>>

\* create_workspace_event up to the insert: check_workspace_access has
\* allowed; the workspace row itself is not read.
BeginCreateEvent(e) ==
    /\ e \in Creatable /\ e \notin creating /\ ~table[e].exists
    /\ creating' = creating \cup {e}
    /\ UNCHANGED <<table, stamp, repo_call, otherThanStore>>

\* create_event_task up to the insert: event_svc.get(event_id) found the
\* event and check_workspace_access has allowed.
BeginCreateTask(k) ==
    /\ k \in Creatable /\ k \notin creating /\ ~table[k].exists
    /\ IsFound(table, EventOf[k])
    /\ creating' = creating \cup {k}
    /\ UNCHANGED <<table, stamp, repo_call, otherThanStore>>

\* create_under_workspace / create_under_event: repo.create and commit.
CommitCreate(x) ==
    /\ x \in creating
    /\ table' = [table EXCEPT ![x] = LiveRow]
    /\ creating' = creating \ {x}
    /\ repo_call' = [op |-> "create", target |-> x, rowcount |-> 1, before |-> table]
    /\ UNCHANGED <<stamp, otherThanStore>>

NextStore ==
    \/ \E x \in RowIds : RepositoryDelete(x)
    \/ \E e \in SdEvents : BeginCreateEvent(e)
    \/ \E k \in SdTasks : BeginCreateTask(k)
    \/ \E x \in RowIds : CommitCreate(x)

-----------------------------------------------------------------------------
(* The program routes that hand out the content of a program (routers/programs.py) *)

\* status.HTTP_201_CREATED
Created == 201

\* The programs that exist, none deleted, one in each workspace.
ContentPrograms == {"pa", "pb"}

\* Program.workspace_id
ProgramWorkspaceId == [pa |-> <<"w", "1">>, pb |-> <<"w", "2">>]

\* Everything but the membership cache and the served request.
otherThanContent ==
    <<backend, expect, got, twice, memberships, req, jwksVars, groupVars, identityVars,
      handlerVars, rateVars, storeVars>>

\* GET /programs/{program_id}: svc.get, then check_workspace_access on the
\* workspace of the program with minimum_role viewer, then the program is returned.
GetProgram(u, permissions, p) ==
    LET w == ProgramWorkspaceId[p]
        r == GetWorkspaceRole(backend, mcache, memberships, w, u)
        status == IF IsPlatformAdmin(permissions)
                  THEN Allowed
                  ELSE WorkspaceRoleStatus(r.role, "viewer", FALSE)
    IN /\ served' = [route |-> "get_program", user_id |-> u, permissions |-> permissions,
                     program_workspace |-> w, workspace_id |-> w, status |-> status,
                     content_returned |-> (status = Allowed)]
       /\ mcache' = IF IsPlatformAdmin(permissions) THEN mcache ELSE r.cache
       /\ UNCHANGED otherThanContent

\* POST /workspaces/{workspace_id}/programs/{program_id}/copy:
\* check_workspace_access on the workspace of the path with minimum_role editor,
\* then svc.get(program_id), then the fields of that program are created under
\* the workspace of the path and the copy is returned.
CopyProgramToWorkspace(u, permissions, w, p) ==
    LET r == GetWorkspaceRole(backend, mcache, memberships, w, u)
        checked == IF IsPlatformAdmin(permissions)
                   THEN Allowed
                   ELSE WorkspaceRoleStatus(r.role, "editor", FALSE)
    IN /\ served' = [route |-> "copy_program_to_workspace", user_id |-> u,
                     permissions |-> permissions,
                     program_workspace |-> ProgramWorkspaceId[p], workspace_id |-> w,
                     status |-> IF checked = Allowed THEN Created ELSE checked,
                     content_returned |-> (checked = Allowed)]
       /\ mcache' = IF IsPlatformAdmin(permissions) THEN mcache ELSE r.cache
       /\ UNCHANGED otherThanContent

\* A cached membership entry runs out of ttl between two requests.
ContentCacheExpire(u, w) ==
    /\ MembershipExpire(u, w)
    /\ UNCHANGED served

NextContent ==
    \/ \E u \in Callers, permissions \in Permissions, p \in ContentPrograms :
          GetProgram(u, permissions, p)
    \/ \E u \in Callers, permissions \in Permissions, w \in WorkspaceIds,
          p \in ContentPrograms : CopyProgramToWorkspace(u, permissions, w, p)
    \/ \E u \in Callers, w \in WorkspaceIds : ContentCacheExpire(u, w)

\* The route handlers, the rate limiter and the repositories, at rest.
RoutesIdle == HandlerIdle /\ RateIdle /\ StoreIdle /\ served = NoServed

\* Every component outside the three above, at rest.
OthersIdle == GroupIdle /\ IdentityIdle /\ RoutesIdle

-----------------------------------------------------------------------------
(* Specifications *)

\* The membership cache driven directly through its API.
InitCache == CacheInit /\ AccessIdle /\ JwksIdle /\ OthersIdle

SpecCache == InitCache /\ [][NextCache]_vars

\* Access-check requests over the membership cache and the store.
InitAccess ==
    /\ backend \in Backends /\ mcache = <<>>
    /\ expect = [p \in Pairs |-> "never"] /\ got = NoGet /\ twice = FALSE
    /\ AccessInit /\ JwksIdle /\ OthersIdle

SpecAccess == InitAccess /\ [][NextAccess]_vars

\* Concurrent token verifications over the signing-key cache.
InitJwks == CacheIdle /\ AccessIdle /\ JwksInit /\ OthersIdle

SpecJwks == InitJwks /\ [][NextJwks]_vars

\* Group access checks over the group membership rows, next to a membership
\* cache that holds workspace roles.
InitGroup ==
    /\ backend = "memory" /\ mcache \in GroupInitCaches
    /\ expect = [p \in Pairs |-> "never"] /\ got = NoGet /\ twice = FALSE
    /\ AccessIdle /\ JwksIdle /\ GroupInit /\ IdentityIdle /\ RoutesIdle

SpecGroup == InitGroup /\ [][NextGroup]_vars

\* First logins and returning users resolved concurrently, over a networked
\* cache backend.
InitIdentity ==
    /\ backend = "redis" /\ mcache = <<>>
    /\ expect = [p \in Pairs |-> "never"] /\ got = NoGet /\ twice = FALSE
    /\ AccessIdle /\ JwksIdle /\ GroupIdle /\ IdentityInit /\ RoutesIdle

SpecIdentity == InitIdentity /\ [][NextIdentity]_vars

\* Returning users resolved concurrently while their row changes and time passes.
InitStale ==
    /\ backend = "memory" /\ mcache = <<>>
    /\ expect = [p \in Pairs |-> "never"] /\ got = NoGet /\ twice = FALSE
    /\ AccessIdle /\ JwksIdle /\ GroupIdle /\ StaleInit /\ RoutesIdle

SpecStale == InitStale /\ [][NextStale]_vars

\* Route handler requests served concurrently over the store and the membership cache.
InitHandler ==
    /\ backend = "memory" /\ mcache = <<>>
    /\ expect = [p \in Pairs |-> "never"] /\ got = NoGet /\ twice = FALSE
    /\ AccessInit /\ JwksIdle /\ GroupIdle /\ IdentityIdle /\ HandlerInit /\ RateIdle
    /\ StoreIdle /\ served = NoServed

SpecHandler == InitHandler /\ [][NextHandler]_vars

\* Sequential rate limiter calls on two keys while time passes.
InitRate ==
    /\ CacheIdle /\ AccessIdle /\ JwksIdle /\ GroupIdle /\ IdentityIdle /\ HandlerIdle
    /\ RateInit /\ StoreIdle /\ served = NoServed

SpecRate == InitRate /\ [][NextRate]_vars

\* Concurrent rate limiter calls on two keys inside one window.
InitConcurrentRate ==
    /\ CacheIdle /\ AccessIdle /\ JwksIdle /\ GroupIdle /\ IdentityIdle /\ HandlerIdle
    /\ ConcurrentRateInit /\ StoreIdle /\ served = NoServed

\* Repository deletes and create requests over a small tree of rows.
InitStore ==
    /\ CacheIdle /\ AccessIdle /\ JwksIdle /\ GroupIdle /\ IdentityIdle /\ HandlerIdle
    /\ RateIdle /\ StoreInit /\ served = NoServed

SpecStore == InitStore /\ [][NextStore]_vars

\* Requests for the content of programs by one caller, over either cache backend.
InitContent ==
    /\ backend \in Backends /\ mcache = <<>>
    /\ expect = [p \in Pairs |-> "never"] /\ got = NoGet /\ twice = FALSE
    /\ AccessInit /\ JwksIdle /\ GroupIdle /\ IdentityIdle /\ RoutesIdle

SpecContent == InitContent /\ [][NextContent]_vars

SpecConcurrentRate == InitConcurrentRate /\ [][NextConcurrentRate]_vars

-----------------------------------------------------------------------------
(* Properties of the membership cache (SpecCache) *)

GotPair == <<got.user_id, got.workspace_id>>

\* C1: after set(u, w, None), and before any invalidate, clear_all or expiry
\* of that entry, get(u, w) returns None; get on a pair that was never set
\* returns CACHE_MISS; a stored role comes back neither as None nor as
\* CACHE_MISS; and None and CACHE_MISS are different values.
C1_ThreeStates ==
    /\ None # CACHE_MISS
    /\ got # NoGet =>
          /\ expect[GotPair] = None => got.result = None
          /\ expect[GotPair] = "never" => got.result = CACHE_MISS
          /\ expect[GotPair] \in WorkspaceRole => got.result \notin {None, CACHE_MISS}

\* C2: set(u, w, r) with a role r, once or twice over, leaves get(u, w)
\* returning r; invalidate(u, w) followed by get(u, w) returns CACHE_MISS,
\* whatever sets came before.
C2_SetTwiceAndInvalidate ==
    got # NoGet =>
       /\ expect[GotPair] \in WorkspaceRole => got.result = expect[GotPair]
       /\ expect[GotPair] = "invalidated" => got.result = CACHE_MISS

\* The same role was set twice in a row on the only entry ever touched, and
\* the get that followed returned it.
C2_Witness ==
    /\ got # NoGet
    /\ twice
    /\ got.result \in WorkspaceRole
    /\ expect[GotPair] = got.result
    /\ \A p \in Pairs \ {GotPair} : expect[p] = "never"

\* C3: after clear_all(), get returns CACHE_MISS for every pair: for the pairs
\* that had been set (with a role or with None) and for those never set.
C3_ClearAllMisses ==
    got # NoGet /\ expect[GotPair] \in {"cleared", "never"} => got.result = CACHE_MISS

\* An entry that had been written was flushed by clear_all and then read.
C3_Witness ==
    /\ got # NoGet
    /\ expect[GotPair] = "cleared"
    /\ got.result = CACHE_MISS
    /\ \E p \in Pairs \ {GotPair} : expect[p] = "cleared"

-----------------------------------------------------------------------------
(* Properties of the access checks (SpecAccess) *)

\* Position of x in an order given from least to most privileged.
Position(order, x) == CHOOSE i \in 1..Len(order) : order[i] = x

PermissionOrder == <<"viewer", "member", "admin">>

WorkspaceRoleOrder == <<"viewer", "editor", "admin", "owner">>

AtLeast(order, a, b) == Position(order, a) >= Position(order, b)

\* C7: with viewer < member < admin, require_permission(b) lets a caller with
\* permission a through when a is at least b and raises 403 otherwise,
\* whoever the caller is and whatever the caches hold.
C7_RequirePermission ==
    req.op = "require_permission" =>
       req.status = IF AtLeast(PermissionOrder, req.permissions, req.minimum)
                    THEN Allowed ELSE Forbidden

\* A member was refused an admin-only route.
C7_Witness ==
    /\ req.op = "require_permission"
    /\ req.permissions = "member"
    /\ req.minimum = "admin"
    /\ req.status = Forbidden

\* C8: a platform admin passes check_workspace_access for every workspace,
\* every minimum_role and either value of hide_from_non_members, with or
\* without a membership row, and the check touches neither the membership
\* cache nor the store.
C8_AdminBypass ==
    req.op = "check_workspace_access" /\ req.permissions = "admin" =>
       /\ req.status = Allowed
       /\ ~req.cache_read
       /\ ~req.cache_written
       /\ ~req.store_read

\* An admin with no membership row passed a check that asks for owner.
C8_Witness ==
    /\ req.op = "check_workspace_access"
    /\ req.permissions = "admin"
    /\ req.minimum = "owner"
    /\ req.hide
    /\ memberships[<<req.user_id, req.workspace_id>>] = None
    /\ req.status = Allowed
    /\ mcache = <<>>

\* C9: for a non-admin caller of check_workspace_access: a resolved role of
\* None gives 404 when hide_from_non_members is set and 403 when it is not; a
\* role below minimum_role gives 403 either way; a role at least minimum_role
\* is allowed.
C9_WorkspaceAccess ==
    req.op = "check_workspace_access" /\ req.permissions # "admin" =>
       /\ req.role = None =>
             req.status = IF req.hide THEN NotFound ELSE Forbidden
       /\ req.role \in WorkspaceRole =>
             req.status = IF AtLeast(WorkspaceRoleOrder, req.role, req.minimum)
                          THEN Allowed ELSE Forbidden

\* A member whose role is too low was refused with 403 although
\* hide_from_non_members was set.
C9_Witness ==
    /\ req.op = "check_workspace_access"
    /\ req.permissions # "admin"
    /\ req.hide
    /\ req.role = "editor"
    /\ req.minimum = "admin"
    /\ req.status = Forbidden

\* C10: check_program_edit_access allows exactly the platform admins, the
\* callers whose workspace role is at least admin, and the author of the
\* program when their role is at least editor; a member who is refused gets
\* 403.
C10_ProgramEdit ==
    req.op = "check_program_edit_access" =>
       LET has_role == req.role \in WorkspaceRole
           is_author == req.author_id # NullId /\ req.author_id = req.user_id
       IN /\ req.status = Allowed <=>
                \/ req.permissions = "admin"
                \/ has_role /\ AtLeast(WorkspaceRoleOrder, req.role, "admin")
                \/ is_author /\ has_role /\ AtLeast(WorkspaceRoleOrder, req.role, "editor")
          /\ has_role /\ req.status # Allowed => req.status = Forbidden

\* An editor was let through on their own program.
C10_Witness ==
    /\ req.op = "check_program_edit_access"
    /\ req.permissions # "admin"
    /\ req.role = "editor"
    /\ req.author_id = req.user_id
    /\ req.status = Allowed


-----------------------------------------------------------------------------
(* Properties of token verification over the signing-key cache (SpecJwks) *)

\* C4: a verification whose first lookup misses the kid and whose provider
\* publishes it when the key set is refreshed does exactly one forced refresh,
\* finds the key on the single retried lookup and goes on to decode; it does
\* not end with the unknown-signing-key failure. The forced refresh is its
\* only fetch when the first lookup was answered from the cache.
C4_RotationTolerance ==
    \A t \in Threads :
       /\ th[t].forced_fetches <= 1
       /\ th[t].forced_fetches = 1 => th[t].miss1
       /\ th[t].miss1 /\ th[t].published2 =>
             /\ th[t].pc = "decode"
             /\ th[t].forced_fetches = 1
             /\ th[t].reason # "unknown_key"
       /\ th[t].miss1 /\ th[t].pc = "decode" =>
             th[t].published2 /\ th[t].forced_fetches = 1

\* A kid missing from the fresh cached set was found after the one forced
\* refresh, the only fetch of that verification.
C4_Witness ==
    \E t \in Threads :
       /\ th[t].pc = "decode"
       /\ th[t].miss1
       /\ th[t].published2
       /\ th[t].ttl_fetches = 0
       /\ th[t].forced_fetches = 1

\* C5 as stated: a verification that ends with the unknown-signing-key
\* failure is a 401 and made at most one network fetch of the key set.
C5_AtMostOneFetch ==
    \A t \in Threads :
       th[t].reason = "unknown_key" =>
          /\ th[t].status = Unauthorized
          /\ th[t].ttl_fetches + th[t].forced_fetches <= 1

\* C5: a verification whose kid is still missing after the refresh ends with
\* the unknown-signing-key 401 after exactly one forced refresh and at most
\* one expiry-triggered fetch before it: two fetches at most, one when the
\* first lookup was answered from the cache; no verification refreshes twice.
C5_UnknownKeyBounded ==
    \A t \in Threads :
       /\ th[t].forced_fetches <= 1
       /\ th[t].ttl_fetches <= 1
       /\ th[t].reason = "unknown_key" =>
             /\ th[t].pc = "done"
             /\ th[t].status = Unauthorized
             /\ th[t].miss1
             /\ ~th[t].published2
             /\ th[t].forced_fetches = 1
       /\ th[t].pc = "done" /\ th[t].miss1 => th[t].reason = "unknown_key"

\* An unknown kid was refused after the expiry-triggered fetch of an empty
\* cache and the forced refresh: two fetches in one verification.
C5_Witness ==
    \E t \in Threads :
       /\ th[t].pc = "done"
       /\ th[t].reason = "unknown_key"
       /\ th[t].status = Unauthorized
       /\ th[t].ttl_fetches = 1
       /\ th[t].forced_fetches = 1

FetchesInFlight == {t \in Threads : th[t].pc \in {"fetch1", "fetch2"}}

\* C6: at no time are two fetches in flight, the thread that fetches holds
\* the lock, and an empty or expired cache is refreshed by exactly one fetch:
\* none while it is still expired, one once it is fresh again.
C6_SingleFlight ==
    /\ Cardinality(FetchesInFlight) <= 1
    /\ \A t \in FetchesInFlight : lock = t
    /\ epochFetches = IF IsExpired(fetched_at, now) THEN 0 ELSE 1

\* Every verification started on the empty cache; one of them fetched the key
\* set and the others, which arrived while that fetch was in flight, read the
\* refreshed set without fetching.
C6_Witness ==
    /\ sharedRefresh
    /\ epochFetches = 1
    /\ \A t \in Threads : th[t].pc = "decode" /\ th[t].forced_fetches = 0
    /\ Cardinality({t \in Threads : th[t].ttl_fetches = 1}) = 1


\* C25: a fetch that fails leaves the cached key set and its time as they
\* were and releases the lock; a get that finds the cache expired, or is
\* forced, fetches (again); the key set and its time are replaced only
\* together, by the thread that holds the lock, so a recorded fetch time
\* means a key set is stored.
C25_FailedRefresh ==
    /\ [](fetched_at # -1 <=> jwks.present)
    /\ [][\A t \in Threads :
            /\ th[t].pc \in {"fetch1", "fetch2"} /\ th'[t].reason = "jwks_fetch"
               => jwks' = jwks /\ fetched_at' = fetched_at /\ lock' = 0
            /\ th[t].pc = "get1" /\ th'[t].pc \notin {"get1", "fetch1"}
               => ~IsExpired(fetched_at, now)
            /\ th[t].pc = "get2" /\ th'[t].pc # "get2" => th'[t].pc = "fetch2"]_vars
    /\ [][<<jwks, fetched_at>>' # <<jwks, fetched_at>>
            => /\ lock # 0 /\ th[lock].pc \in {"fetch1", "fetch2"}
               /\ jwks'.present /\ fetched_at' = now /\ lock' = 0]_vars

\* A refresh of the expired cache failed with 503 and left the old key set
\* and its time in place; the other verification now fetches again.
C25_Witness ==
    \E t, t2 \in Threads :
       /\ th[t].pc = "done" /\ th[t].reason = "jwks_fetch" /\ th[t].status = Unavailable
       /\ jwks.present /\ fetched_at = 0 /\ IsExpired(fetched_at, now)
       /\ th[t2].pc = "fetch1" /\ lock = t2

\* C26: when two verifications run at once for the same kid, missing from
\* the fresh cached set, and one of them has already refreshed the set and
\* found the kid, the other one takes the refreshed set and does not fetch.
C26_NoThunderingHerd ==
    [][\A t, t1 \in Threads :
          /\ t # t1
          /\ th[t].pc = "get2"
          /\ th[t1].pc = "decode" /\ th[t1].forced_fetches = 1
          /\ th[t1].kid = th[t].kid
          /\ th[t].kid \in jwks.keys
          /\ ~IsExpired(fetched_at, now)
          => th'[t].pc # "fetch2"]_vars

-----------------------------------------------------------------------------
(* Properties of the group access check (SpecGroup) *)

\* What check_group_access has to answer for the request r over the rows gm.
GroupAnswer(r, gm) ==
    LET row == gm[<<r.user_id, r.workspace_id>>]
    IN IF r.permissions = "admin"
       THEN Allowed
       ELSE IF row # None /\ AtLeast(WorkspaceRoleOrder, row, r.minimum)
       THEN Allowed
       ELSE Forbidden

\* C11: check_group_access lets a platform admin through; a non-admin without
\* a membership row gets 403 (never 404), one whose role ranks below
\* minimum_role gets 403, one whose role ranks at least minimum_role is
\* allowed; the answer follows the rows as they are at the call, and no step
\* reads or writes the membership cache.
C11_GroupAccess ==
    [][/\ mcache' = mcache
       /\ req' # req =>
             /\ req'.op = "check_group_access"
             /\ req'.status = GroupAnswer(req', group_memberships)
             /\ ~req'.cache_read /\ ~req'.cache_written
             /\ req'.permissions # "admin" => req'.store_read]_vars

\* A caller without a row in one group, and with a row in the other, was
\* refused with 403 while the membership cache held an entry.
C11_Witness ==
    /\ req.op = "check_group_access"
    /\ req.permissions = "member"
    /\ req.role = None
    /\ req.status = Forbidden
    /\ mcache # <<>>
    /\ \E p \in GroupPairs : group_memberships[p] # None


-----------------------------------------------------------------------------
(* Properties of get_current_user (SpecIdentity) *)

\* The call that ended last found no row for its subject.
FirstLogin == ires.pc = "done" /\ (ires.claim_email # <<>> \/ ires.profile_calls > 0)

\* ... and an email was there for it, in the claims or in the profile.
EmailObtained == ires.claim_email # <<>> \/ ires.profile \in {"email", "email_name"}

\* C12: a get_current_user call that finds a live cache entry for its subject
\* returns the cached snapshot, with no store lookup, no profile-endpoint call
\* and no user created; the step changes neither the rows nor the cache.
C12_CacheHit ==
    [][\A r \in Requests :
          /\ ireq[r].pc = "cache_get"
          /\ ireq'[r] # ireq[r]
          /\ ucache[ireq[r].sub].present
          /\ time < ucache[ireq[r].sub].expires_at
          /\ ires'.profile # "cache_error"
          => /\ ireq'[r].pc = "idle"
             /\ ires'.hit
             /\ ires'.status = Allowed
             /\ ires'.user = ucache[ireq[r].sub].user
             /\ ires'.store_reads = 0 /\ ires'.profile_calls = 0 /\ ires'.creates = 0
             /\ users' = users /\ ucache' = ucache]_vars

\* The account created by an earlier call was served from the cache.
C12_Witness ==
    /\ ires.pc = "done"
    /\ ires.hit
    /\ ires.status = Allowed
    /\ ires.user = users["auth0|1"]
    /\ ires.user.auth0_id = "auth0|1"
    /\ ires.store_reads = 0

\* C13: a call that finds neither a cache entry nor a row for its subject,
\* and for which an email is there, takes the email from the claims, else from
\* one profile call, the name from the claims, else the profile, else the
\* email, creates one viewer with them, caches it and returns it. (The email
\* is compared as UserCreate stores it: stripped and lower-cased.)
C13_FirstLogin ==
    FirstLogin /\ EmailObtained /\ ires.profile # "cache_error" =>
       LET email == IF ires.claim_email # <<>> THEN ires.claim_email ELSE ProfileEmail
           name == IF ires.claim_name # <<>> THEN ires.claim_name
                   ELSE IF ires.profile \in {"name", "email_name"} THEN ProfileName
                   ELSE email
       IN /\ ires.status = Allowed
          /\ ires.creates = 1
          /\ ires.profile_calls = IF ires.claim_email # <<>> THEN 0 ELSE 1
          /\ ires.cache_writes = 1
          /\ ires.user = [auth0_id |-> ires.sub, email |-> NormalizeEmail(email),
                          name |-> Strip(name), permissions |-> "viewer"]

\* C28: of the concurrent calls made for a subject that had no row, with a
\* valid token and an email to be had, none fails: each of them ends allowed
\* and returns the one row created for the subject.
C28_ConcurrentFirstLogin ==
    ires.pc = "done" /\ EmailObtained /\ ires.profile # "cache_error" =>
       /\ ires.status = Allowed
       /\ ires.user = users[ires.sub]
       /\ ires.user.auth0_id = ires.sub

\* C14: a call that finds no row, has no email claim and gets a profile without
\* an email ends as a 401; the step creates no user and writes nothing to the
\* cache, so the subject still has no entry.
C14_EmailUnavailable ==
    [][ires' # ires /\ ires'.profile \in {"empty", "name"} =>
          /\ ires'.status = Unauthorized
          /\ ires'.user = NoUser
          /\ ires'.creates = 0 /\ ires'.cache_writes = 0
          /\ ires'.claim_email = <<>>
          /\ users' = users
          /\ ucache' = ucache]_vars

\* The profile had a name but no email: 401, and the subject has neither a row
\* nor a cache entry afterwards.
C14_Witness ==
    /\ ires.pc = "done"
    /\ ires.profile = "name"
    /\ ires.status = Unauthorized
    /\ ires.profile_calls = 1
    /\ users[ires.sub] = NoUser
    /\ ~ucache[ires.sub].present

\* C15: a failed call of the profile endpoint is surfaced as 503, never as the
\* 401 of a bad token.
C15_UpstreamDistinct ==
    ires.pc = "done" /\ ires.profile = "error" =>
       ires.status = Unavailable /\ ires.status # Unauthorized

\* C16: a cache operation that fails inside get_current_user is taken as a
\* miss: the request does not fail because of it.
C16_CacheOutageIsMiss ==
    ires.pc = "done" /\ ires.profile = "cache_error" => ires.status # ServerError


-----------------------------------------------------------------------------
(* Staleness of the user cache (SpecStale) *)

\* C19: when the row of a subject last changed at time t, a call that starts
\* at or after t + ttl is not given the row as it was before that change.
C19_StalenessBounded ==
    /\ ires.pc = "done"
    /\ ires.status = Allowed
    /\ changed_at[ires.sub] >= 0
    /\ ires.started >= changed_at[ires.sub] + CacheTtlTicks
    => ires.user # pre_change[ires.sub]

-----------------------------------------------------------------------------
(* Properties of the route handlers (SpecHandler) *)

\* C17: when a workspace delete request completes successfully, the membership
\* cache has been flushed: at that moment no get(u, w) for the deleted
\* workspace returns a role.
C17_DeleteFlushesCache ==
    [][\A r \in HandlerSlots :
          /\ hreq[r].pc = "mutate"
          /\ hreq[r].route = "delete_workspace"
          /\ hres' # hres
          /\ hres'.status = NoContent
          => \A u \in UserIds :
                MembershipCacheGet(mcache', u, hreq[r].workspace_id) = CACHE_MISS]_vars

\* The store rows as a whole.
StoreRows == <<workspaces, programs>>

\* C18: the access check of a request is evaluated only once its identity is
\* resolved, the store changes only in the mutation step of a request whose
\* check allowed, and a request whose check denied ends there with the
\* check's status and without having changed the store.
C18_PerRequestOrdering ==
    /\ [](\A r \in HandlerSlots :
            /\ hreq[r].pc \in {"load", "check", "mutate"} => hreq[r].user_id \in Callers
            /\ hreq[r].pc = "mutate" => hreq[r].check_status = Allowed
            /\ hreq[r].pc \in {"identity", "load", "check"} => hreq[r].check_status = 0)
    /\ [](hres.mutated => hres.check_status = Allowed /\ hres.user_id \in Callers)
    /\ [](hres.check_status \notin {0, Allowed}
            => ~hres.mutated /\ hres.status = hres.check_status)
    /\ [][StoreRows' # StoreRows
            => \E r \in HandlerSlots :
                  /\ hreq[r].pc = "mutate"
                  /\ hreq[r].check_status = Allowed
                  /\ hreq[r].user_id \in Callers
                  /\ hres' = [hreq[r] EXCEPT !.pc = "done", !.status = hres'.status,
                                             !.mutated = TRUE]]_vars
    /\ [][\A r \in HandlerSlots :
            hreq[r].pc = "check" /\ hreq'[r] # hreq[r] /\ hreq'[r].pc # "mutate"
            => /\ hreq'[r] = IdleHandler
               /\ hres'.status = Forbidden
               /\ hres'.check_status = Forbidden
               /\ ~hres'.mutated
               /\ StoreRows' = StoreRows]_vars

\* A request was denied by its check and ended without a mutation, while the
\* store has been changed by another request whose check allowed.
C18_Witness ==
    /\ hres.route \in Routes
    /\ hres.check_status = Forbidden
    /\ hres.status = Forbidden
    /\ ~hres.mutated
    /\ \E r \in HandlerSlots : hreq[r].pc = "mutate" /\ hreq[r].check_status = Allowed

-----------------------------------------------------------------------------
(* Properties of the rate limiter (SpecRate) *)

\* C20: on each key, the first RateLimit calls inside a window were allowed
\* with retry 0, every further call before the window ended was refused with
\* an integer retry of at least 1, and a refused call wrote nothing.
C20_RateLimitPerKey ==
    \A k \in RateKeys :
        calls[k].made =>
            IF calls[k].nth <= RateLimit
            THEN calls[k].allowed /\ calls[k].retry_after = 0
            ELSE ~calls[k].allowed /\ calls[k].retry_after >= 1 /\ ~calls[k].wrote

\* C21: a window opened by a check at time t stays in force until
\* t + WindowSeconds whatever checks follow it: a check before that time neither
\* moves expires_at nor opens a new window, and the first check at or after it
\* is allowed with retry 0 and opens a new window with one hit.
C21_WindowReset ==
    [][\A k \in RateKeys :
          calls'[k] # calls[k] =>
             IF windows[k].present /\ rl_time < windows[k].expires_at
             THEN windows'[k].expires_at = windows[k].expires_at
             ELSE /\ calls'[k].allowed /\ calls'[k].retry_after = 0
                  /\ windows'[k].hits = 1
                  /\ windows'[k].expires_at = rl_time + WindowSeconds * HalvesPerSecond]_vars

\* C27: for concurrent calls on a key inside one window, once no call on the
\* key is between its read and its write, the stored hit count is the number
\* of calls that were allowed, and at most RateLimit calls were allowed.
C27_ConcurrentCount ==
    \A k \in RateKeys :
        (\A r \in Requests : checking[r].key # k)
        => /\ windows[k].hits = granted[k]
           /\ granted[k] <= RateLimit

-----------------------------------------------------------------------------
(* Further properties of the access checks (SpecAccess) *)

\* C24: a role lookup that misses the cache reads the store once and leaves
\* the result (a role, or None for a non-member) in the cache; a lookup that
\* hits returns the cached role or None, reads no store and writes nothing.
C24_NegativeCaching ==
    [][/\ req' # req
       /\ req'.op \in {"check_workspace_access", "check_program_edit_access"}
       /\ ~IsPlatformAdmin(req'.permissions)
       => LET cached == MembershipCacheGet(mcache, req'.user_id, req'.workspace_id)
          IN IF cached = CACHE_MISS
             THEN /\ req'.store_read /\ req'.cache_written
                  /\ req'.role = FindUserRole(memberships, req'.workspace_id, req'.user_id)
                  /\ MembershipCacheGet(mcache', req'.user_id, req'.workspace_id) = req'.role
             ELSE /\ ~req'.store_read /\ ~req'.cache_written
                  /\ req'.role = cached
                  /\ req'.role \in WorkspaceRole \cup {None}
                  /\ mcache' = mcache]_vars

-----------------------------------------------------------------------------
(* Properties of soft delete (SpecStore) *)

\* The subtree of a row: a workspace with its programs, events and troops and
\* the tasks of those events; a program with its events and their tasks; an
\* event with its tasks; any other row alone.
Subtree(x) ==
    LET events == {e \in SdEvents : x \in {e, WorkspaceOf[e], ProgramOf[e]}}
    IN {x} \cup events
       \cup {q \in SdPrograms \cup SdTroops : WorkspaceOf[q] = x}
       \cup {k \in SdTasks : EventOf[k] \in events}

\* C22: after a repository delete(x), every row of the subtree of x has
\* deleted_at set, no row has been removed, and every row outside the subtree
\* is as it was.
C22_Cascade ==
    repo_call.op = "delete" =>
       /\ \A y \in RowIds : table[y].exists = repo_call.before[y].exists
       /\ \A y \in Subtree(repo_call.target) : table[y].exists => table[y].deleted_at # 0
       /\ \A y \in RowIds \ Subtree(repo_call.target) : table[y] = repo_call.before[y]

\* The live workspace w1 was deleted: its program, its events, their tasks
\* and its troop carry the time of the call; the rows of w2 are live.
C22_Witness ==
    /\ repo_call.op = "delete" /\ repo_call.target = "w1" /\ repo_call.rowcount = 1
    /\ \A y \in {"w1", "p1", "e1", "e2", "t1", "t2", "tr1"} :
          repo_call.before[y] = LiveRow /\ table[y].deleted_at = stamp
    /\ \A y \in {"w2", "e3", "t3", "tr2"} : table[y] = LiveRow

\* C23: a soft-deleted row is still there, no get finds it, no list and no
\* count includes it; a delete of an already deleted row returns 0; and no
\* call changes a deleted_at that is set.
C23_AbsorbingInvisible ==
    /\ \A x \in RowIds :
          table[x].deleted_at # 0 =>
             /\ table[x].exists
             /\ ~IsFound(table, x)
             /\ \A w \in SdWorkspaces :
                   x \notin ListChildren(table, SdPrograms \cup SdEvents \cup SdTroops,
                                         WorkspaceOf, w)
             /\ \A e \in SdEvents : x \notin ListChildren(table, SdTasks, EventOf, e)
             /\ \A r \in SdTroops : x \notin ListTroopEvents(table, r)
    /\ \A r \in SdTroops : CountTroopEvents(table, r) = Cardinality(ListTroopEvents(table, r))
    /\ repo_call.op # "-" =>
          /\ \A y \in RowIds :
                repo_call.before[y].deleted_at # 0 => table[y] = repo_call.before[y]
          /\ repo_call.op = "delete" /\ repo_call.before[repo_call.target].deleted_at # 0
             => repo_call.rowcount = 0

\* C29: no live program, event or troop belongs to a deleted workspace, and
\* no live task belongs to a deleted event.
C29_Containment ==
    /\ \A x \in SdPrograms \cup SdEvents \cup SdTroops :
          IsFound(table, x) => table[WorkspaceOf[x]].deleted_at = 0
    /\ \A k \in SdTasks : IsFound(table, k) => table[EventOf[k]].deleted_at = 0

-----------------------------------------------------------------------------
(* Properties of the program content routes (SpecContent) *)

\* C30: whenever a request by a caller who is no platform admin has returned the
\* content of a program, as the program itself or as a copy created in another
\* workspace, the caller holds a role (viewer or above) in the workspace the
\* program belongs to.
C30_WorkspaceIsolation ==
    served.content_returned /\ ~IsPlatformAdmin(served.permissions)
    => memberships[<<served.user_id, served.program_workspace>>] \in WorkspaceRole

\* The part of C30 that is about GET /programs/{program_id} alone.
GetProgramIsolated ==
    served.route = "get_program" /\ served.content_returned
    /\ ~IsPlatformAdmin(served.permissions)
    => memberships[<<served.user_id, served.program_workspace>>] \in WorkspaceRole


====
